---- MODULE Spec2Model ----
(***************************************************************************)
(* kirkpatrick8/GIS: two Streamlit scripts that convert CSV / DXF / DWG    *)
(* uploads to zipped shapefiles.                                           *)
(*   fileconverter.py  process_csv, process_cad, convert_dwg_to_dxf,       *)
(*                     save_and_zip_shapefile, main                        *)
(*   test.py           convert_to_shp and the module-level caller          *)
(* One behaviour of the model is one run of one script on one upload.      *)
(* The third-party libraries (ezdxf, shapely, geopandas, odafc, the file   *)
(* system) are the environment: what they return or raise is drawn with \E *)
(* and the scripts' own control flow is what the actions encode.           *)
(***************************************************************************)
EXTENDS Integers, Sequences, FiniteSets, TLC

VARIABLES
    script,     \* which script runs: "fileconverter" or "test"
    pc,         \* position of the run
    ext,        \* file_extension of the upload (fileconverter.main)
    columns,    \* df.columns read by process_csv
    source,     \* coordinate source branch taken by process_csv
    files,      \* scratch files and directories that exist now
    created,    \* scratch files and directories the run has created so far
    readLog,    \* the reads of the drawing attempted so far, in order
    msp,        \* doc.modelspace(): the entities of the parsed drawing
    i,          \* number of entities of msp the for-loop has consumed
    entities,   \* process_cad's list of {'geometry', 'properties'}
    layers,     \* convert_to_shp's dict layer -> list of geometries
    datasets,   \* convert_to_shp: layer -> geometries of each .shp written
    gdf,        \* main's gdf (None until process_* returns)
    zip_file,   \* value convert_to_shp returned to its caller
    errors,     \* st.error messages shown, in order
    warnings,   \* per-entity failures reported (log_debug / st.warning)
    offered     \* a st.download_button was rendered

vars == <<script, pc, ext, columns, source, files, created, readLog, msp, i,
          entities, layers, datasets, gdf, zip_file, errors, warnings, offered>>

-----------------------------------------------------------------------------
(* Bounds *)
MaxEntities == 3
MaxVerts == 3
MaxRows == 1

-----------------------------------------------------------------------------
(* Names *)
Scripts == {"fileconverter", "test"}
Extensions == {".csv", ".dxf", ".dwg"}
CsvColumns == {"id", "latitude", "longitude", "x", "y", "geometry"}

TempFile == "temp_file"
DxfFile == "dxf_file"
StageDir == "tmpdir"
ZipCwd == "output.zip"
ZipInStage == "tmpdir/output_shapefiles.zip"

SchemaMsg == "CSV must contain 'latitude' and 'longitude', 'x' and 'y', or 'geometry' columns."
NoGeomMsg == "No valid geometries found in the CAD file."
StructureMsg == "DXFStructureError"
IoMsg == "IOError"
FrameMsg == "GeoDataFrame error"
ConvertMsg == "ODAFCError"
ExportMsg == "export error"
DownloadMsg == "download error"
InvalidFileMsg == "Invalid or unsupported DWG/DXF file."
FailedMsg == "Conversion failed."
NotFoundMsg == "FileNotFoundError"

None == [isNone |-> TRUE, rows |-> <<>>]
Frame(rows) == [isNone |-> FALSE, rows |-> rows]
Unset == "unset"
ReturnedNone == "None"

SeqsUpTo(S, n) == UNION {[1..k -> S] : k \in 0..n}
Last(s) == s[Len(s)]
Range(s) == {s[k] : k \in 1..Len(s)}

-----------------------------------------------------------------------------
(* shapely geometry values *)
NoGeometry == [type |-> "None", coords |-> <<>>]
Point(c) == [type |-> "Point", coords |-> <<c>>]
LineString(cs) == [type |-> "LineString", coords |-> cs]
Polygon(cs) == [type |-> "Polygon", coords |-> cs]

\* Point(center).buffer(radius): a ring around the centre; empty unless radius > 0.
\* The ring is sampled at its four axis points.
Buffer(center, radius) ==
    IF radius > 0
    THEN Polygon(<< <<center[1] + radius, center[2]>>, <<center[1], center[2] + radius>>,
                    <<center[1] - radius, center[2]>>, <<center[1], center[2] - radius>> >>)
    ELSE Polygon(<<>>)

\* bool(geom) in `if geom:` : None is falsy, a shapely geometry is truthy iff not empty
Truthy(geom) == geom.type # "None" /\ geom.coords # <<>>

\* location[:2]
Take2(p) == <<p[1], p[2]>>

-----------------------------------------------------------------------------
(* Drawing entities as process_cad sees them *)
DxfTypes == {"POINT", "LINE", "LWPOLYLINE", "POLYLINE", "CIRCLE", "TEXT"}
PolylineTypes == {"LWPOLYLINE", "POLYLINE"}

\* fault: where the libraries raise while this entity is converted
\*   "geometry" while its geometry is built, "attribs" while its attributes are copied
Faults == {"none", "geometry", "attribs"}

Entity(t, pts, r, fl, f) ==
    [dxftype |-> t, points |-> pts, radius |-> r, flags |-> fl, fault |-> f]

Vertex(k) == <<k, k * k>>
Location(k) == <<k, k * k, 0>>

\* n vertices of which the first d are distinct and the rest repeat the d-th
VertexList(n, d) == [k \in 1..n |-> Vertex(IF k < d THEN k ELSE d)]

VertexLists ==
    UNION {{VertexList(n, d) : d \in {x \in {n - 1, n} : x >= 1 \/ n = 0}} : n \in 0..MaxVerts}

\* bit 1 of a polyline's flags is its closed flag
Closed(e) == e.flags % 2 = 1

Entities ==
    {Entity("POINT", <<Location(1)>>, 0, 0, f) : f \in Faults}
    \cup {Entity("LINE", <<Location(1), Location(d)>>, 0, 0, f) : d \in 1..2, f \in Faults}
    \cup {Entity("CIRCLE", <<Location(1)>>, r, 0, f) : r \in 0..1, f \in Faults}
    \cup {Entity("TEXT", <<Location(1)>>, 0, 0, "none")}
    \cup {Entity(t, pts, 0, fl, f) :
            t \in PolylineTypes, pts \in VertexLists, fl \in 0..1, f \in Faults}

\* one entity of each kind of outcome, for the drawings of several entities
Exemplars ==
    { Entity("POINT", <<Location(1)>>, 0, 0, "none"),
      Entity("LINE", <<Location(1), Location(2)>>, 0, 0, "attribs"),
      Entity("LWPOLYLINE", VertexList(1, 1), 0, 0, "none"),
      Entity("LWPOLYLINE", VertexList(2, 2), 0, 0, "none"),
      Entity("POLYLINE", VertexList(3, 3), 0, 1, "none"),
      Entity("POLYLINE", VertexList(3, 3), 0, 0, "geometry"),
      Entity("CIRCLE", <<Location(1)>>, 1, 0, "none"),
      Entity("TEXT", <<Location(1)>>, 0, 0, "none") }

Drawings == {<<e>> : e \in Entities} \cup SeqsUpTo(Exemplars, MaxEntities)

-----------------------------------------------------------------------------
(* process_cad, per entity *)

\* Geometry with the polyline branch taking every non-empty vertex list as a line
Geometry_AnyLine(e) ==
    IF e.dxftype = "POINT" THEN Point(Take2(e.points[1]))
    ELSE IF e.dxftype = "LINE" THEN LineString(<<Take2(e.points[1]), Take2(e.points[2])>>)
    ELSE IF e.dxftype \in {"LWPOLYLINE", "POLYLINE"} THEN
        IF Len(e.points) > 2 THEN Polygon(e.points)
        ELSE IF Len(e.points) >= 1 THEN LineString(e.points)
        ELSE NoGeometry
    ELSE IF e.dxftype = "CIRCLE" THEN Buffer(Take2(e.points[1]), e.radius)
    ELSE NoGeometry

\* the if/elif chain on entity.dxftype()
Geometry(e) ==
    IF e.dxftype = "POINT" THEN Point(Take2(e.points[1]))
    ELSE IF e.dxftype = "LINE" THEN LineString(<<Take2(e.points[1]), Take2(e.points[2])>>)
    ELSE IF e.dxftype \in {"LWPOLYLINE", "POLYLINE"} THEN
        IF Len(e.points) > 2 THEN Polygon(e.points)
        ELSE IF Len(e.points) = 2 THEN LineString(e.points)
        ELSE NoGeometry
    ELSE IF e.dxftype = "CIRCLE" THEN Buffer(Take2(e.points[1]), e.radius)
    ELSE NoGeometry

\* properties = {'dxftype': ...} plus str() of every existing dxf attribute
Properties(e) == [dxftype |-> e.dxftype, flags |-> ToString(e.flags)]

\* the body of the for-loop's try: the records it appends and whether it raised
\* into the except clause
ConvertEntity(e) ==
    IF e.dxftype # "TEXT" /\ e.fault = "geometry"
    THEN [raised |-> TRUE, records |-> <<>>]
    ELSE LET geom == Geometry(e) IN
         IF Truthy(geom)
         THEN IF e.fault = "attribs"
              THEN [raised |-> TRUE, records |-> <<>>]
              ELSE [raised |-> FALSE,
                    records |-> <<[geometry |-> geom, properties |-> Properties(e)]>>]
         ELSE [raised |-> FALSE, records |-> <<>>]

-----------------------------------------------------------------------------
(* process_csv *)
Row(k) == [latitude |-> 40 + k, longitude |-> 0 - 74 - k, x |-> k, y |-> 10 + k]

\* CoordinateSource with the x/y test ahead of the latitude/longitude test
CoordinateSource_XYFirst(cols) ==
    IF "x" \in cols /\ "y" \in cols THEN "xy"
    ELSE IF "latitude" \in cols /\ "longitude" \in cols THEN "latlon"
    ELSE IF "geometry" \in cols THEN "geometry"
    ELSE "none"

\* the if/elif chain on df.columns
CoordinateSource(cols) ==
    IF "latitude" \in cols /\ "longitude" \in cols THEN "latlon"
    ELSE IF "x" \in cols /\ "y" \in cols THEN "xy"
    ELSE IF "geometry" \in cols THEN "geometry"
    ELSE "none"

\* the geometry list built from the rows
CsvGeometry(src, k) ==
    IF src = "latlon" THEN Point(<<Row(k).longitude, Row(k).latitude>>)
    ELSE IF src = "xy" THEN Point(<<Row(k).x, Row(k).y>>)
    ELSE Point(<<0, 0>>)

CsvRecords(src, n) ==
    [k \in 1..n |-> [geometry |-> CsvGeometry(src, k), properties |-> [row |-> k]]]

-----------------------------------------------------------------------------
(* Drawing entities as convert_to_shp sees them: the layer, and what             *)
(* GeoProxy.from_dxf_entity gives for the entity: an object of some class, or an *)
(* exception                                                                     *)
Layers == {"A", "B"}
ShapelyTypes == {"Point", "LineString", "Polygon"}
GeoResults == ShapelyTypes \cup {"GeoProxy", "raise"}
LayerEntities == [layer : Layers, geo : GeoResults]
LayerDrawings == SeqsUpTo(LayerEntities, MaxEntities)

EmptyDict == [l \in {} |-> <<>>]

\* `if layer not in layers: layers[layer] = []`
WithKey(d, l) == IF l \in DOMAIN d THEN d ELSE d @@ (l :> <<>>)

\* the try block: isinstance(geo, (Point, LineString, Polygon)) guards the append
AppendGeo(d, e) ==
    IF e.geo \in ShapelyTypes
    THEN [d EXCEPT ![e.layer] = Append(@, e.geo)]
    ELSE d

\* WrittenLayers without the `if geometries:` guard
WrittenLayers_NoGuard(d) == DOMAIN d

\* `for layer, geometries in layers.items(): if geometries:` one .shp per non-empty layer
WrittenLayers(d) == {l \in DOMAIN d : d[l] # <<>>}

-----------------------------------------------------------------------------
(* State after construction: nothing uploaded yet *)
Init ==
    /\ script \in Scripts
    /\ pc = "start"
    /\ ext = Unset
    /\ columns = {}
    /\ source = Unset
    /\ files = {}
    /\ created = {}
    /\ readLog = <<>>
    /\ msp = <<>>
    /\ i = 0
    /\ entities = <<>>
    /\ layers = EmptyDict
    /\ datasets = EmptyDict
    /\ gdf = None
    /\ zip_file = Unset
    /\ errors = <<>>
    /\ warnings = 0
    /\ offered = FALSE

Read(mode, result) == [mode |-> mode, result |-> result]

\* main's `except Exception as e: st.error(...)`: the run ends with the message shown
Fail(msg) ==
    /\ errors' = Append(errors, msg)
    /\ pc' = "done"

-----------------------------------------------------------------------------
(* fileconverter.py *)

\* main: the upload is written to a NamedTemporaryFile(delete=False)
F_Upload ==
    /\ script = "fileconverter" /\ pc = "start"
    /\ \E x \in Extensions :
        /\ ext' = x
        /\ pc' = IF x = ".csv" THEN "csv" ELSE IF x = ".dwg" THEN "dwg" ELSE "read"
    /\ files' = files \cup {TempFile}
    /\ created' = created \cup {TempFile}
    /\ UNCHANGED <<script, columns, source, readLog, msp, i, entities, layers, datasets,
                   gdf, zip_file, errors, warnings, offered>>

\* process_csv: returns the frame or raises into main's handler
F_ProcessCsv ==
    /\ script = "fileconverter" /\ pc = "csv"
    /\ \E cols \in SUBSET CsvColumns, n \in 0..MaxRows, built \in BOOLEAN :
        LET src == CoordinateSource(cols) IN
        /\ columns' = cols
        /\ source' = src
        /\ IF src = "none"
           THEN Fail(SchemaMsg) /\ gdf' = gdf
           ELSE IF ~built
           THEN Fail(FrameMsg) /\ gdf' = gdf
           ELSE /\ gdf' = Frame(CsvRecords(src, n))
                /\ pc' = "returned"
                /\ errors' = errors
    /\ UNCHANGED <<script, ext, files, created, readLog, msp, i, entities, layers,
                   datasets, zip_file, warnings, offered>>

\* convert_dwg_to_dxf: odafc.convert writes the .dxf beside the temp file, or raises
F_ConvertDwg ==
    /\ script = "fileconverter" /\ pc = "dwg"
    /\ \E converted \in BOOLEAN :
        IF converted
        THEN /\ files' = files \cup {DxfFile}
             /\ created' = created \cup {DxfFile}
             /\ pc' = "read"
             /\ errors' = errors
        ELSE /\ Fail(ConvertMsg)
             /\ UNCHANGED <<files, created>>
    /\ UNCHANGED <<script, ext, columns, source, readLog, msp, i, entities, layers,
                   datasets, gdf, zip_file, warnings, offered>>

\* process_cad: doc = ezdxf.readfile(file_path)
F_ReadStrict ==
    /\ script = "fileconverter" /\ pc = "read"
    /\ \E result \in {"ok", "structure", "io"} :
        /\ readLog' = Append(readLog, Read("strict", result))
        /\ IF result = "ok"
           THEN /\ \E d \in Drawings : msp' = d
                /\ pc' = "scan"
                /\ errors' = errors
           ELSE IF result = "structure"
           THEN /\ pc' = "recover"
                /\ UNCHANGED <<msp, errors>>
           ELSE /\ Fail(IoMsg)
                /\ msp' = msp
    /\ UNCHANGED <<script, ext, columns, source, files, created, i, entities, layers,
                   datasets, gdf, zip_file, warnings, offered>>

\* process_cad: except ezdxf.DXFStructureError: doc, auditor = recover.readfile(...)
F_Recover ==
    /\ script = "fileconverter" /\ pc = "recover"
    /\ \E result \in {"ok", "structure"} :
        /\ readLog' = Append(readLog, Read("recover", result))
        /\ IF result = "ok"
           THEN /\ \E d \in Drawings : msp' = d
                /\ pc' = "scan"
                /\ errors' = errors
           ELSE /\ Fail(StructureMsg)
                /\ msp' = msp
    /\ UNCHANGED <<script, ext, columns, source, files, created, i, entities, layers,
                   datasets, gdf, zip_file, warnings, offered>>

\* F_Entity with the try around the loop instead of inside it: a raising entity
\* ends the scan
F_Entity_Abort ==
    /\ script = "fileconverter" /\ pc = "scan" /\ i < Len(msp)
    /\ LET r == ConvertEntity(msp[i + 1]) IN
        /\ entities' = entities \o r.records
        /\ warnings' = IF r.raised THEN warnings + 1 ELSE warnings
        /\ i' = IF r.raised THEN Len(msp) ELSE i + 1
    /\ UNCHANGED <<script, pc, ext, columns, source, files, created, readLog, msp,
                   layers, datasets, gdf, zip_file, errors, offered>>

\* process_cad: one iteration of `for entity in msp`
F_Entity ==
    /\ script = "fileconverter" /\ pc = "scan" /\ i < Len(msp)
    /\ LET r == ConvertEntity(msp[i + 1]) IN
        /\ entities' = entities \o r.records
        /\ warnings' = IF r.raised THEN warnings + 1 ELSE warnings
    /\ i' = i + 1
    /\ UNCHANGED <<script, pc, ext, columns, source, files, created, readLog, msp,
                   layers, datasets, gdf, zip_file, errors, offered>>

\* process_cad after the loop: `if entities:` builds the frame, else raises ValueError
F_Finish ==
    /\ script = "fileconverter" /\ pc = "scan" /\ i = Len(msp)
    /\ IF entities # <<>>
       THEN /\ gdf' = Frame(entities)
            /\ pc' = "returned"
            /\ errors' = errors
       ELSE /\ Fail(NoGeomMsg)
            /\ gdf' = gdf
    /\ UNCHANGED <<script, ext, columns, source, files, created, readLog, msp, i,
                   entities, layers, datasets, zip_file, warnings, offered>>

\* main after process_* returned: os.unlink of the .dxf (DWG uploads) and of the
\* temp file; process_cad's locals are gone
F_Unlink ==
    /\ script = "fileconverter" /\ pc = "returned"
    /\ files' = files \ {DxfFile, TempFile}
    /\ pc' = "preview"
    /\ msp' = <<>>
    /\ i' = 0
    /\ entities' = <<>>
    /\ UNCHANGED <<script, ext, columns, source, created, readLog, layers, datasets,
                   gdf, zip_file, errors, warnings, offered>>

\* main: st.button('Convert to Shapefile') is False on this run
F_NoClick ==
    /\ script = "fileconverter" /\ pc = "preview"
    /\ pc' = "done"
    /\ UNCHANGED <<script, ext, columns, source, files, created, readLog, msp, i,
                   entities, layers, datasets, gdf, zip_file, errors, warnings, offered>>

\* main: the button is pressed; save_and_zip_shapefile(gdf, output_filename).
\* The TemporaryDirectory is removed when its with-block is left, on return or raise;
\* the zip is opened for writing in the working directory.
F_Export ==
    /\ script = "fileconverter" /\ pc = "preview"
    /\ \E result \in {"ok", "to_file", "zip"} :
        IF result = "ok"
        THEN /\ files' = files \cup {ZipCwd}
             /\ created' = created \cup {StageDir, ZipCwd}
             /\ pc' = "zipped"
             /\ errors' = errors
        ELSE IF result = "to_file"
        THEN /\ files' = files
             /\ created' = created \cup {StageDir}
             /\ Fail(ExportMsg)
        ELSE /\ files' = files \cup {ZipCwd}
             /\ created' = created \cup {StageDir, ZipCwd}
             /\ Fail(ExportMsg)
    /\ UNCHANGED <<script, ext, columns, source, readLog, msp, i, entities, layers,
                   datasets, gdf, zip_file, warnings, offered>>

\* main: open(zip_filename), st.download_button, st.success, os.unlink(zip_filename)
F_Download ==
    /\ script = "fileconverter" /\ pc = "zipped"
    /\ \E rendered \in BOOLEAN :
        IF rendered
        THEN /\ offered' = TRUE
             /\ files' = files \ {ZipCwd}
             /\ pc' = "done"
             /\ errors' = errors
        ELSE /\ Fail(DownloadMsg)
             /\ UNCHANGED <<offered, files>>
    /\ UNCHANGED <<script, ext, columns, source, created, readLog, msp, i, entities,
                   layers, datasets, gdf, zip_file, warnings>>

-----------------------------------------------------------------------------
(* test.py *)

\* caller: the upload is written to a NamedTemporaryFile(delete=False);
\* convert_to_shp enters `with tempfile.TemporaryDirectory() as temp_dir`
T_Begin ==
    /\ script = "test" /\ pc = "start"
    /\ files' = files \cup {TempFile, StageDir}
    /\ created' = created \cup {TempFile, StageDir}
    /\ pc' = "read"
    /\ UNCHANGED <<script, ext, columns, source, readLog, msp, i, entities, layers,
                   datasets, gdf, zip_file, errors, warnings, offered>>

\* convert_to_shp: doc = ezdxf.readfile(input_file). DXFStructureError is caught
\* (st.error, return None); any other exception leaves through the with-block to
\* the caller's `except Exception`. Leaving the with-block removes temp_dir.
T_Read ==
    /\ script = "test" /\ pc = "read"
    /\ \E result \in {"ok", "structure", "io"} :
        /\ readLog' = Append(readLog, Read("strict", result))
        /\ IF result = "ok"
           THEN /\ \E d \in LayerDrawings : msp' = d
                /\ pc' = "scan"
                /\ UNCHANGED <<files, zip_file, errors>>
           ELSE IF result = "structure"
           THEN /\ errors' = Append(errors, InvalidFileMsg)
                /\ zip_file' = ReturnedNone
                /\ files' = files \ {StageDir}
                /\ pc' = "caller"
                /\ msp' = msp
           ELSE /\ errors' = Append(errors, IoMsg)
                /\ files' = files \ {StageDir}
                /\ pc' = "finally"
                /\ UNCHANGED <<msp, zip_file>>
    /\ UNCHANGED <<script, ext, columns, source, created, i, entities, layers,
                   datasets, gdf, warnings, offered>>

\* convert_to_shp: one iteration of `for entity in msp`
T_Entity ==
    /\ script = "test" /\ pc = "scan" /\ i < Len(msp)
    /\ LET e == msp[i + 1] IN
        /\ layers' = AppendGeo(WithKey(layers, e.layer), e)
        /\ warnings' = IF e.geo = "raise" THEN warnings + 1 ELSE warnings
    /\ i' = i + 1
    /\ UNCHANGED <<script, pc, ext, columns, source, files, created, readLog, msp,
                   entities, datasets, gdf, zip_file, errors, offered>>

\* convert_to_shp after the loop: the shapefiles of the layers, then the zip inside
\* temp_dir; a failing write leaves through the with-block to the caller's except
T_Write ==
    /\ script = "test" /\ pc = "scan" /\ i = Len(msp)
    /\ \E written \in BOOLEAN :
        IF written
        THEN /\ datasets' = [l \in WrittenLayers(layers) |-> layers[l]]
             /\ files' = files \cup {ZipInStage}
             /\ created' = created \cup {ZipInStage}
             /\ pc' = "written"
             /\ errors' = errors
        ELSE /\ errors' = Append(errors, ExportMsg)
             /\ files' = files \ {StageDir}
             /\ pc' = "finally"
             /\ UNCHANGED <<datasets, created>>
    /\ UNCHANGED <<script, ext, columns, source, readLog, msp, i, entities, layers,
                   gdf, zip_file, warnings, offered>>

\* convert_to_shp: `return zip_filename` from inside the with-block: temp_dir and
\* all it holds are removed as the function returns
T_Return ==
    /\ script = "test" /\ pc = "written"
    /\ zip_file' = ZipInStage
    /\ files' = files \ {StageDir, ZipInStage}
    /\ datasets' = EmptyDict
    /\ pc' = "caller"
    /\ UNCHANGED <<script, ext, columns, source, created, readLog, msp, i, entities,
                   layers, gdf, errors, warnings, offered>>

\* caller: `if zip_file:` open it and render the download button, else st.error;
\* a failing open goes to `except Exception`. convert_to_shp's locals are gone.
T_Caller ==
    /\ script = "test" /\ pc = "caller"
    /\ IF zip_file = ReturnedNone
       THEN /\ errors' = Append(errors, FailedMsg)
            /\ offered' = offered
       ELSE IF zip_file \in files
       THEN /\ offered' = TRUE
            /\ errors' = errors
       ELSE /\ errors' = Append(errors, NotFoundMsg)
            /\ offered' = offered
    /\ msp' = <<>>
    /\ i' = 0
    /\ layers' = EmptyDict
    /\ pc' = "finally"
    /\ UNCHANGED <<script, ext, columns, source, files, created, readLog, entities,
                   datasets, gdf, zip_file, warnings>>

\* caller: `finally: os.unlink(tmp_file_path)`
T_Finally ==
    /\ script = "test" /\ pc = "finally"
    /\ files' = files \ {TempFile}
    /\ pc' = "done"
    /\ UNCHANGED <<script, ext, columns, source, created, readLog, msp, i, entities,
                   layers, datasets, gdf, zip_file, errors, warnings, offered>>

-----------------------------------------------------------------------------
Next ==
    \/ F_Upload \/ F_ProcessCsv \/ F_ConvertDwg \/ F_ReadStrict \/ F_Recover
    \/ F_Entity \/ F_Finish \/ F_Unlink \/ F_NoClick \/ F_Export \/ F_Download
    \/ T_Begin \/ T_Read \/ T_Entity \/ T_Write \/ T_Return \/ T_Caller \/ T_Finally

Spec == Init /\ [][Next]_vars

-----------------------------------------------------------------------------
(* Vocabulary of the properties *)

ReadOk == readLog # <<>> /\ Last(readLog).result = "ok"

\* process_cad has left its loop: it returned the frame or raised the empty-result error
CadEnded ==
    /\ script = "fileconverter" /\ ReadOk
    /\ pc = "returned" \/ (pc = "done" /\ gdf.isNone)

CadRunning == script = "fileconverter" /\ ReadOk /\ (pc = "scan" \/ CadEnded)

\* convert_to_shp has left its loop and written its output, or has just returned it
ShpEnded == script = "test" /\ ReadOk /\ pc \in {"written", "caller"}

ShpRunning == script = "test" /\ ReadOk /\ (pc = "scan" \/ ShpEnded)

Prefix == SubSeq(msp, 1, i)

WellFormed(e) == e.fault = "none"
Converts(e) == e.geo # "raise"
ShortPolyline(e) == e.dxftype \in PolylineTypes /\ Len(e.points) < 2
NotShortPolyline(e) == ~ShortPolyline(e)

\* the records process_cad's loop gives on drawing d
RECURSIVE CadScan(_)
CadScan(d) ==
    IF d = <<>> THEN <<>>
    ELSE CadScan(SubSeq(d, 1, Len(d) - 1)) \o ConvertEntity(Last(d)).records

\* the geometries of layer l convert_to_shp's loop gives on drawing d
RECURSIVE GeomsOnLayer(_, _)
GeomsOnLayer(d, l) ==
    IF d = <<>> THEN <<>>
    ELSE LET rest == GeomsOnLayer(Tail(d), l) IN
         IF Head(d).layer = l /\ Head(d).geo \in {"Point", "LineString", "Polygon"}
         THEN <<Head(d).geo>> \o rest
         ELSE rest

RecordsOn(d, l) == IF l \in DOMAIN d THEN d[l] ELSE <<>>

NoRecords ==
    IF script = "fileconverter" THEN entities = <<>>
    ELSE \A l \in DOMAIN layers : layers[l] = <<>>

AllShort == msp # <<>> /\ \A k \in 1..Len(msp) : ShortPolyline(msp[k])

HasLatLon == {"latitude", "longitude"} \subseteq columns
HasXY == {"x", "y"} \subseteq columns
HasGeometry == "geometry" \in columns

Recoveries == {k \in 1..Len(readLog) : readLog[k].mode = "recover"}

ValidGeometry(g) ==
    /\ g.coords # <<>>
    /\ g.type = "Polygon" => Cardinality(Range(g.coords)) >= 3
    /\ g.type = "LineString" => Len(g.coords) >= 2

-----------------------------------------------------------------------------
C2_EmptyResultReported ==
    /\ ((CadEnded \/ (ShpEnded /\ pc = "caller")) /\ msp # <<>> /\ NoRecords) =>
          /\ errors # <<>>
          /\ Last(errors) = NoGeomMsg
          /\ ~offered
    /\ NoGeomMsg \in Range(errors) =>
          /\ CadEnded /\ NoRecords
          /\ ~offered
          /\ Range(errors) \cap {StructureMsg, InvalidFileMsg} = {}

(* C3: every scratch file or directory the request created is gone when the      *)
(* request finishes, on every exit path.                                         *)
C3_ScratchReleased == pc = "done" => created \cap files = {}

(* C4: an open polyline of 2 or more vertices gives a LineString over its        *)
(* vertices; a polyline gives a Polygon only if it is closed and has at least 3  *)
(* vertices. Stated on the first entity of the drawing, right after the loop     *)
(* has consumed it, for entities the libraries convert without raising.          *)
C4_OpenPolylineIsLine ==
    (script = "fileconverter" /\ pc = "scan" /\ i = 1
        /\ msp[1].dxftype \in PolylineTypes /\ msp[1].fault = "none") =>
       /\ (~Closed(msp[1]) /\ Len(msp[1].points) >= 2) =>
             /\ Len(entities) = 1
             /\ entities[1].geometry = LineString(msp[1].points)
       /\ (entities # <<>> /\ entities[1].geometry.type = "Polygon") =>
             /\ Closed(msp[1])
             /\ Len(msp[1].points) >= 3

(* C5 as claimed: polylines of fewer than 2 vertices give no record and nothing  *)
(* is raised, also when they are the only entities of the drawing.               *)
C5_ShortPolylineNeverRaises ==
    (CadRunning /\ AllShort) => (entities = <<>> /\ errors = <<>>)

(* C5 amended: a polyline of fewer than 2 vertices gives no record and the scan  *)
(* goes on past it to the end of the drawing; when such polylines are the only   *)
(* entities, nothing is raised during the scan and process_cad then ends with    *)
(* the "No valid geometries found" error.                                        *)
C5_ShortPolylineDropped ==
    /\ CadRunning => entities = CadScan(SelectSeq(Prefix, NotShortPolyline))
    /\ CadEnded => i = Len(msp)
    /\ (CadRunning /\ AllShort) =>
          /\ entities = <<>>
          /\ pc = "scan" => errors = <<>>
          /\ CadEnded => (pc = "done" /\ errors = <<NoGeomMsg>> /\ gdf.isNone)

\* process_cad ended on a drawing of two or more short polylines only
C5_Witness ==
    /\ CadEnded /\ AllShort
    /\ Len(msp) >= 2
    /\ i = Len(msp)
    /\ errors = <<NoGeomMsg>>

(* C6: process_csv takes latitude/longitude, else x/y, else the geometry column, *)
(* whatever else is present; the points are built from the chosen columns; with  *)
(* none of the three the run ends with the schema error and no frame.            *)
C6_CsvPriority ==
    (script = "fileconverter" /\ source # Unset) =>
       /\ HasLatLon => source = "latlon"
       /\ (~HasLatLon /\ HasXY) => source = "xy"
       /\ (~HasLatLon /\ ~HasXY /\ HasGeometry) => source = "geometry"
       /\ (~HasLatLon /\ ~HasXY /\ ~HasGeometry) =>
             /\ source = "none"
             /\ gdf.isNone
             /\ pc = "done"
             /\ errors = <<SchemaMsg>>
       /\ (HasLatLon /\ ~gdf.isNone) =>
             \A k \in 1..Len(gdf.rows) :
                 gdf.rows[k].geometry.coords = <<<<Row(k).longitude, Row(k).latitude>>>>
       /\ (~HasLatLon /\ HasXY /\ ~gdf.isNone) =>
             \A k \in 1..Len(gdf.rows) :
                 gdf.rows[k].geometry.coords = <<<<Row(k).x, Row(k).y>>>>

\* all three column sets present, latitude/longitude used, a frame with a row returned
C6_Witness ==
    /\ script = "fileconverter" /\ pc = "returned"
    /\ {"latitude", "longitude", "x", "y", "geometry"} \subseteq columns
    /\ source = "latlon"
    /\ gdf.rows # <<>>

(* C7: a strict read that fails with a structural error is followed by exactly   *)
(* one recovery read; recovery is tried only right after such a failure; a       *)
(* failed recovery ends the request with an error and without any extraction.    *)
C7_SingleRecovery ==
    /\ Cardinality(Recoveries) <= 1
    /\ \A k \in Recoveries : k > 1 /\ readLog[k - 1] = Read("strict", "structure")
    /\ (pc = "done" /\ Read("strict", "structure") \in Range(readLog)) =>
          Cardinality(Recoveries) = 1
    /\ Read("recover", "structure") \in Range(readLog) =>
          /\ pc = "done"
          /\ errors # <<>>
          /\ msp = <<>> /\ i = 0 /\ entities = <<>> /\ gdf.isNone

(* C8: convert_to_shp writes a dataset exactly for the layers that have a record; *)
(* each written layer is the layer of some entity of the drawing and holds the    *)
(* geometries of that layer's entities in input order; a layer whose entities     *)
(* were all skipped or unsupported has no dataset.                                *)
C8_NoEmptyLayerWritten ==
    (script = "test" /\ pc = "written") =>
       /\ DOMAIN datasets \subseteq {msp[k].layer : k \in 1..Len(msp)}
       /\ \A l \in Layers :
             IF GeomsOnLayer(msp, l) # <<>>
             THEN l \in DOMAIN datasets /\ datasets[l] = GeomsOnLayer(msp, l)
             ELSE l \notin DOMAIN datasets

\* both layers seen, only layer A written, with two geometries; B's entity skipped
C8_Witness ==
    /\ script = "test" /\ pc = "written"
    /\ DOMAIN layers = {"A", "B"}
    /\ DOMAIN datasets = {"A"}
    /\ Len(datasets["A"]) = 2
    /\ files = {TempFile, StageDir, ZipInStage}

(* C9: every record extraction holds or returns has a non-empty geometry valid   *)
(* for its type: a Polygon has at least 3 distinct vertices, a LineString at     *)
(* least 2 vertices.                                                             *)
C9_GeometriesValid ==
    script = "fileconverter" =>
       /\ \A k \in 1..Len(entities) : ValidGeometry(entities[k].geometry)
       /\ \A k \in 1..Len(gdf.rows) : ValidGeometry(gdf.rows[k].geometry)

(* C10: when convert_to_shp has returned an archive path, the archive exists at  *)
(* that path when the caller is about to open it.                                *)
C10_ArchiveExistsForCaller ==
    (script = "test" /\ pc = "caller" /\ zip_file \notin {Unset, ReturnedNone}) =>
       zip_file \in files

====
